---------------------------- MODULE Spec2Model ----------------------------
(***************************************************************************)
(* The network connectivity manager of src/WiFiManager.cpp: the store of   *)
(* known networks, the scanner, the selection of the best network, the     *)
(* connection state machine and the access-point fallback.                 *)
(*                                                                         *)
(* The manager is a set of static fields; every operation runs to its end  *)
(* on the single loop task, so one operation is one action.  An operation  *)
(* is written as an operator from a record of the fields (the "view" of    *)
(* the state) to the record after it, so that nested calls compose as in   *)
(* the source.  What the radio, the clock and the flash do is an input of  *)
(* the operation.                                                          *)
(***************************************************************************)
EXTENDS Integers, Sequences, FiniteSets, TLC

VARIABLES
    _savedNetworks,          \* std::vector<WiFiNetwork>, the known-network store
    _scannedNetworks,        \* std::vector<WiFiNetwork>, the last scan result
    _state,                  \* WiFiManagerState
    _apEnabled,
    _initialized,
    _lastScanTime,
    _lastConnectionAttempt,
    _connectionStartTime,
    _reconnectAttempts,      \* uint8_t
    _currentSSID,
    _currentRSSI,
    lastStatus,              \* the static local of checkConnectionStatus
    nvsNetworks,             \* the list stored under the key "wifi_networks"
    nvsApEnabled,            \* the flag stored under the key "ap_enabled"
    millis,                  \* the clock, milliseconds since power-on
    wlStatus,                \* WiFi.status()
    wifiMode,                \* WiFi.mode(): which roles of the radio are on
    staSSID,                 \* the network WiFi.begin was last given
    softAP,                  \* WiFi.softAP succeeded and the AP role is still on
    lastCall,                \* the last operation: name, argument, result
    trace,                   \* what the radio was asked to do so far
    api                      \* the fields of the APIManager and its statistics
                             \* in the flash

vars == <<_savedNetworks, _scannedNetworks, _state, _apEnabled, _initialized,
          _lastScanTime, _lastConnectionAttempt, _connectionStartTime,
          _reconnectAttempts, _currentSSID, _currentRSSI, lastStatus,
          nvsNetworks, nvsApEnabled, millis, wlStatus, wifiMode, staSSID,
          softAP, lastCall, trace, api>>

-----------------------------------------------------------------------------
(* Program constants.                                                      *)

MAX_WIFI_NETWORKS == 5

WIFI_SCAN_INTERVAL == 60000

CONNECTION_TIMEOUT == 20000

RECONNECT_INTERVAL == 30000

MAX_RECONNECT_ATTEMPTS == 5

\* bestScore starts at -1000 in connectToBestNetwork, written here as its
\* magnitude.
INITIAL_BEST_SCORE_BELOW == 1000

\* the weight of the priority in the score
PRIORITY_WEIGHT == 100

\* the loop of connectToWiFi polls at most 40 times, 500 ms apart, after a
\* first delay of 500 ms
CONNECT_POLLS == 40

POLL_DELAY == 500

\* delay(100) after WiFi.disconnect in startAPMode and performScan
DISCONNECT_DELAY == 100

\* the RSSI refresh of checkConnectionStatus: millis() % 5000 < 100
RSSI_REFRESH_PERIOD == 5000

RSSI_REFRESH_WINDOW == 100

\* default priority of a stored entry without one (net["priority"] | 5)
DEFAULT_PRIORITY == 5

UINT8 == 256

\* APIManager.cpp
API_CACHE_DURATION == 30000

MAX_RETRIES == 3

\* delay(1000 * attempt) before a retry
RETRY_DELAY == 1000

\* updateStatistics saves the statistics when the last save is more than a
\* minute ago
STATS_SAVE_INTERVAL == 60000

HTTP_CODE_OK == 200

INT32_MAX == 2147483647

WIFI_STATE_DISCONNECTED == "DISCONNECTED"
WIFI_STATE_CONNECTING == "CONNECTING"
WIFI_STATE_CONNECTED == "CONNECTED"
WIFI_STATE_AP_MODE == "AP_MODE"
WIFI_STATE_AP_STA_MODE == "AP_STA_MODE"

WL_IDLE_STATUS == "WL_IDLE_STATUS"
WL_CONNECTED == "WL_CONNECTED"
WL_DISCONNECTED == "WL_DISCONNECTED"
WL_NO_SHIELD == "WL_NO_SHIELD"

WIFI_OFF == "WIFI_OFF"
WIFI_STA == "WIFI_STA"
WIFI_AP == "WIFI_AP"
WIFI_AP_STA == "WIFI_AP_STA"

\* the empty String
NoSSID == ""

-----------------------------------------------------------------------------
(* Bounds of the model.                                                    *)

\* the clock stops the state-machine specification at MaxTime milliseconds:
\* a connection at the first poll, and the delay of startAPMode after it
MaxTime == 1100

\* WiFiNetwork::connectionAttempts is counted up to MaxConnAttempts
MaxConnAttempts == 2

\* a scan reports at most MaxScan access points
MaxScan == 2

\* the clock stops the store specification at StoreMaxTime
StoreMaxTime == 3000

\* the clock stops the selection specification at SelectMaxTime
SelectMaxTime == 3000

\* the clock stops the reconnect specification at ReconnectMaxTime
ReconnectMaxTime == 65000

-----------------------------------------------------------------------------
(* The fields as one record, and the record written back to the fields.    *)

\* no time stamp yet
NoTime == 0 - 1

\* String response and APIResponseInfo as the caller of fetchPortfolioData
\* holds them before the call
NoResponse == ""

NoInfo ==
    [success |-> FALSE, error |-> "", httpCode |-> 0, fromCache |-> FALSE,
     responseTime |-> 0]

\* of a call of fetchPortfolioData: the requests it sent, the response and
\* the APIResponseInfo it left to its caller, and the error it logged
\* (hasInfo: the caller has passed an APIResponseInfo; exitMode: the
\* isExitMode it has passed)
NoFetch ==
    [http |-> 0, response |-> NoResponse, info |-> NoInfo, log |-> "",
     hasInfo |-> FALSE, exitMode |-> FALSE]

View ==
    [saved |-> _savedNetworks, scanned |-> _scannedNetworks, state |-> _state,
     apEnabled |-> _apEnabled, initialized |-> _initialized,
     lastScanTime |-> _lastScanTime,
     lastConnectionAttempt |-> _lastConnectionAttempt,
     connectionStartTime |-> _connectionStartTime,
     reconnectAttempts |-> _reconnectAttempts, currentSSID |-> _currentSSID,
     currentRSSI |-> _currentRSSI, lastStatus |-> lastStatus,
     nvsNetworks |-> nvsNetworks, nvsApEnabled |-> nvsApEnabled,
     now |-> millis, wl |-> wlStatus, mode |-> wifiMode, staSSID |-> staSSID,
     softAP |-> softAP,
     lastScanStart |-> trace.lastScanStart,
     lastAutoAttempt |-> trace.lastAutoAttempt,
     autoAttempts |-> trace.autoAttempts,
     api |-> api,
     begun |-> NoSSID, ret |-> FALSE, connecting |-> FALSE, auto |-> FALSE,
     scans |-> <<>>, blockingScan |-> FALSE, report |-> <<>>,
     stampAhead |-> FALSE, fetch |-> NoFetch]

\* Of the radio's history (NoTime: not yet):
\*   lastScanStart    when WiFi.scanNetworks was last called
\*   lastAutoAttempt  currentTime of the last update that called
\*                    connectToBestNetwork
\*   autoAttempts     how many times update has called connectToBestNetwork
\*                    since the state last became CONNECTED
\* Of this operation:
\*   begun         the network it gave to WiFi.begin (NoSSID: none)
\*   ret           what it returned
\*   connecting    it has set _state to WIFI_STATE_CONNECTING
\*   auto          it is an update that has called connectToBestNetwork
\*   scans         when it called WiFi.scanNetworks, in order
\*   blockingScan  performScan has run
\*   report        what the scan of performScan found
\*   stampAhead    it is an update that has subtracted from its currentTime a
\*                 time stamp later than it
\*   fetch         what fetchPortfolioData gave its caller

\* The model follows the program while the clock and the attempt counters of
\* the entries are within the bounds.
WithinBounds(r, maxTime) ==
    /\ r.now <= maxTime
    /\ \A i \in 1..Len(r.saved) : r.saved[i].connectionAttempts <= MaxConnAttempts

Commit(r, name, arg, maxTime) ==
    /\ WithinBounds(r, maxTime)
    /\ _savedNetworks' = r.saved
    /\ _scannedNetworks' = r.scanned
    /\ _state' = r.state
    /\ _apEnabled' = r.apEnabled
    /\ _initialized' = r.initialized
    /\ _lastScanTime' = r.lastScanTime
    /\ _lastConnectionAttempt' = r.lastConnectionAttempt
    /\ _connectionStartTime' = r.connectionStartTime
    /\ _reconnectAttempts' = r.reconnectAttempts
    /\ _currentSSID' = r.currentSSID
    /\ _currentRSSI' = r.currentRSSI
    /\ lastStatus' = r.lastStatus
    /\ nvsNetworks' = r.nvsNetworks
    /\ nvsApEnabled' = r.nvsApEnabled
    /\ millis' = r.now
    /\ wlStatus' = r.wl
    /\ wifiMode' = r.mode
    /\ staSSID' = r.staSSID
    /\ softAP' = r.softAP
    /\ lastCall' = [name |-> name, ssid |-> arg, ret |-> r.ret, begun |-> r.begun,
                    connecting |-> r.connecting, auto |-> r.auto, scans |-> r.scans,
                    blockingScan |-> r.blockingScan, report |-> r.report,
                    stampAhead |-> r.stampAhead, fetch |-> r.fetch]
    /\ trace' = [lastScanStart |-> r.lastScanStart,
                 lastAutoAttempt |-> r.lastAutoAttempt,
                 autoAttempts |-> r.autoAttempts]
    /\ api' = r.api

\* delay(ms), and every other wait: the clock moves on
Delay(s, ms) == [s EXCEPT !.now = s.now + ms]

\* a - b on unsigned long (32 bits), for a and b below 2^31.  A negative
\* difference wraps to 2^32 - (b - a), which is above INT32_MAX; the model
\* checker's integers end at INT32_MAX, which stands for it: the program only
\* compares the difference with intervals far below.
Sub32(a, b) == IF a >= b THEN a - b ELSE INT32_MAX

-----------------------------------------------------------------------------
(* The known-network store.                                                *)

\* the index of the first entry named ssid, 0 if there is none
IndexOf(nets, ssid) ==
    IF \E i \in 1..Len(nets) : nets[i].ssid = ssid
    THEN CHOOSE i \in 1..Len(nets) :
             /\ nets[i].ssid = ssid
             /\ \A j \in 1..(i - 1) : nets[j].ssid # ssid
    ELSE 0

RemoveAt(nets, i) ==
    [j \in 1..(Len(nets) - 1) |-> IF j < i THEN nets[j] ELSE nets[j + 1]]

\* std::sort with the comparator a.priority > b.priority.  The vector has at
\* most MAX_WIFI_NETWORKS + 1 elements, for which std::sort is an insertion
\* sort: an element goes behind the elements that do not compare after it.
InsertByPriority(sorted, x) ==
    LET ahead == {i \in 1..Len(sorted) : ~(x.priority > sorted[i].priority)}
        k == IF ahead = {} THEN 0
             ELSE CHOOSE i \in ahead : \A j \in ahead : j <= i
    IN  SubSeq(sorted, 1, k) \o <<x>> \o SubSeq(sorted, k + 1, Len(sorted))

RECURSIVE SortFrom(_, _, _)
SortFrom(nets, i, acc) ==
    IF i > Len(nets) THEN acc
    ELSE SortFrom(nets, i + 1, InsertByPriority(acc, nets[i]))

SortByPriority(nets) == SortFrom(nets, 1, <<>>)

\* (a faulty variant: the comparator the wrong way round, which finds
\* the first entry of the highest priority)
HighestPriorityIndex(nets) ==
    CHOOSE i \in 1..Len(nets) :
        /\ \A j \in 1..Len(nets) : ~(nets[j].priority > nets[i].priority)
        /\ \A j \in 1..(i - 1) : nets[j].priority < nets[i].priority

\* std::min_element with the comparator a.priority < b.priority: the first
\* of the entries that no entry compares before
LowestPriorityIndex(nets) ==
    CHOOSE i \in 1..Len(nets) :
        /\ \A j \in 1..Len(nets) : ~(nets[j].priority < nets[i].priority)
        /\ \A j \in 1..(i - 1) : nets[j].priority > nets[i].priority

\* saveNetworks: every field of every entry goes to the key "wifi_networks"
saveNetworks(s) == [s EXCEPT !.nvsNetworks = s.saved]

\* net["lastConnected"] | 0 and its like read an int: a stored number that
\* is no int reads as the default
ReadInt(v, default) == IF v <= INT32_MAX THEN v ELSE default

\* loadNetworks: the stored list, each number read back through its type,
\* sorted by priority
LoadEntry(e) ==
    [ssid |-> e.ssid, password |-> e.password,
     priority |-> ReadInt(e.priority, DEFAULT_PRIORITY) % UINT8,
     autoConnect |-> e.autoConnect,
     lastConnected |-> ReadInt(e.lastConnected, 0),
     connectionAttempts |-> ReadInt(e.connectionAttempts, 0),
     rssi |-> ReadInt(e.rssi, 0)]

loadNetworks(s) ==
    [s EXCEPT !.saved =
        SortByPriority([i \in 1..Len(s.nvsNetworks) |-> LoadEntry(s.nvsNetworks[i])])]

NewNetwork(ssid, password, priority, autoConnect) ==
    [ssid |-> ssid, password |-> password, priority |-> priority,
     autoConnect |-> autoConnect, lastConnected |-> 0,
     connectionAttempts |-> 0, rssi |-> 0]

\* (a faulty variant: no capacity check)
EvictNothing(nets) == nets

\* the capacity check of addNetwork: a full store loses its lowest-priority
\* entry
EvictForCapacity(nets) ==
    IF Len(nets) >= MAX_WIFI_NETWORKS
    THEN RemoveAt(nets, LowestPriorityIndex(nets))
    ELSE nets

\* the update of an entry already in the store
UpdateExisting(nets, i, password, priority, autoConnect) ==
    [nets EXCEPT ![i].password = password, ![i].priority = priority,
                 ![i].autoConnect = autoConnect]

\* (a faulty variant: no search for the name, the entry is always new)
addNetworkAlwaysInserts(s, ssid, password, priority, autoConnect) ==
    [saveNetworks([s EXCEPT !.saved =
        SortByPriority(Append(EvictForCapacity(s.saved),
            NewNetwork(ssid, password, priority, autoConnect)))])
     EXCEPT !.ret = TRUE]

addNetwork(s, ssid, password, priority, autoConnect) ==
    LET i == IndexOf(s.saved, ssid)
    IN  IF i # 0
        THEN [saveNetworks([s EXCEPT !.saved =
                 UpdateExisting(s.saved, i, password, priority, autoConnect)])
              EXCEPT !.ret = TRUE]
        ELSE [saveNetworks([s EXCEPT !.saved =
                 SortByPriority(Append(EvictForCapacity(s.saved),
                     NewNetwork(ssid, password, priority, autoConnect)))])
              EXCEPT !.ret = TRUE]

\* std::remove_if and erase: every entry named ssid goes
WithoutSSID(nets, ssid) == SelectSeq(nets, LAMBDA n : n.ssid # ssid)

removeNetwork(s, ssid) ==
    IF IndexOf(s.saved, ssid) # 0
    THEN [saveNetworks([s EXCEPT !.saved = WithoutSSID(s.saved, ssid)])
          EXCEPT !.ret = TRUE]
    ELSE [s EXCEPT !.ret = FALSE]

-----------------------------------------------------------------------------
(* The radio, as the manager drives it.  An input record e says what the   *)
(* world does during one operation:                                        *)
(*   e.report    what WiFi.scanNetworks finds, a sequence of [ssid, rssi]  *)
(*   e.scanTime  how long the blocking scan takes                          *)
(*   e.linkAt    the poll of connectToWiFi during which the link comes up  *)
(*               (0: at once; more than CONNECT_POLLS: not at all)         *)
(*   e.jitter    what the polls of connectToWiFi take beyond their delays  *)
(*   e.linkRssi  WiFi.RSSI() of the link                                   *)
(*   e.apOk      whether WiFi.softAPConfig and WiFi.softAP succeed         *)
(***************************************************************************)

StaOff(mode) ==
    IF mode = WIFI_AP_STA THEN WIFI_AP
    ELSE IF mode = WIFI_STA THEN WIFI_OFF ELSE mode

ApOff(mode) ==
    IF mode = WIFI_AP_STA THEN WIFI_STA
    ELSE IF mode = WIFI_AP THEN WIFI_OFF ELSE mode

HasSta(mode) == mode \in {WIFI_STA, WIFI_AP_STA}

HasAp(mode) == mode \in {WIFI_AP, WIFI_AP_STA}

\* WiFi.mode(m): a role that is switched off stops
SetMode(s, m) ==
    [s EXCEPT !.mode = m,
              !.softAP = s.softAP /\ HasAp(m),
              !.wl = IF HasSta(m) THEN (IF s.wl = WL_NO_SHIELD THEN WL_IDLE_STATUS ELSE s.wl)
                     ELSE WL_NO_SHIELD]

\* WiFi.disconnect(false): the link goes, the station role stays
DropLink(s) ==
    [s EXCEPT !.wl = IF s.wl = WL_CONNECTED THEN WL_DISCONNECTED ELSE s.wl]

\* WiFi.disconnect(true): the link goes and the station role is switched off
StationOff(s) == SetMode(DropLink(s), StaOff(s.mode))

-----------------------------------------------------------------------------
(* The access point.                                                       *)

\* (a faulty variant: a call while the access point runs stops it)
startAPModeToggling(s, e) ==
    LET s1 == IF s.wl = WL_CONNECTED THEN Delay(DropLink(s), DISCONNECT_DELAY) ELSE s
        s2 == SetMode(s1, WIFI_AP)
    IN  IF s.state = WIFI_STATE_AP_MODE
        THEN [SetMode(s, ApOff(s.mode)) EXCEPT !.state = WIFI_STATE_DISCONNECTED,
                                                !.ret = TRUE]
        ELSE IF ~e.apOk
        THEN [s2 EXCEPT !.ret = FALSE]
        ELSE [s2 EXCEPT !.state = WIFI_STATE_AP_MODE, !.apEnabled = TRUE,
                        !.softAP = TRUE, !.ret = TRUE]

startAPMode(s, e) ==
    LET s1 == IF s.wl = WL_CONNECTED THEN Delay(DropLink(s), DISCONNECT_DELAY) ELSE s
        s2 == SetMode(s1, WIFI_AP)
    IN  IF ~e.apOk
        THEN [s2 EXCEPT !.ret = FALSE]
        ELSE [s2 EXCEPT !.state = WIFI_STATE_AP_MODE, !.apEnabled = TRUE,
                        !.softAP = TRUE, !.ret = TRUE]

stopAPMode(s) ==
    [SetMode(s, ApOff(s.mode)) EXCEPT !.apEnabled = FALSE, !.nvsApEnabled = FALSE]

startAPSTA(s, e) ==
    LET s1 == SetMode(s, WIFI_AP_STA)
    IN  IF ~e.apOk
        THEN [s1 EXCEPT !.ret = FALSE]
        ELSE [s1 EXCEPT !.state = WIFI_STATE_AP_STA_MODE, !.apEnabled = TRUE,
                        !.softAP = TRUE, !.ret = TRUE]

-----------------------------------------------------------------------------
(* The scanner.                                                            *)

\* std::sort with the comparator a.rssi > b.rssi, an insertion sort for the
\* at most 16 elements of the model
InsertByRssi(sorted, x) ==
    LET ahead == {i \in 1..Len(sorted) : ~(x.rssi > sorted[i].rssi)}
        k == IF ahead = {} THEN 0
             ELSE CHOOSE i \in ahead : \A j \in ahead : j <= i
    IN  SubSeq(sorted, 1, k) \o <<x>> \o SubSeq(sorted, k + 1, Len(sorted))

RECURSIVE SortRssiFrom(_, _, _)
SortRssiFrom(nets, i, acc) ==
    IF i > Len(nets) THEN acc
    ELSE SortRssiFrom(nets, i + 1, InsertByRssi(acc, nets[i]))

\* (a faulty variant: the results are left in the order of the radio)
KeepOrder(nets) == nets

SortByRssi(nets) == SortRssiFrom(nets, 1, <<>>)

\* one reported access point as performScan stores it (the encryption flag,
\* which the manager only passes on, is left out)
Observed(saved, ap) ==
    LET i == IndexOf(saved, ap.ssid)
    IN  [ssid |-> ap.ssid, rssi |-> ap.rssi, saved |-> i # 0,
         autoConnect |-> IF i # 0 THEN saved[i].autoConnect ELSE FALSE]

performScan(s, e) ==
    LET wasConnected == s.wl = WL_CONNECTED
        s1 == IF wasConnected THEN Delay(DropLink(s), DISCONNECT_DELAY) ELSE s
        \* WiFi.scanNetworks(false, true) blocks; WiFi.reconnect() only asks
        \* for the link, which comes back later
        s2 == [Delay(s1, e.scanTime) EXCEPT !.scanned = <<>>,
                                            !.scans = Append(s.scans, s1.now),
                                            !.lastScanStart = s1.now,
                                            !.blockingScan = TRUE,
                                            !.report = e.report]
    IN  IF Len(e.report) = 0
        THEN s2
        ELSE [s2 EXCEPT
                 !.scanned = SortByRssi([k \in 1..Len(e.report) |->
                                            Observed(s.saved, e.report[k])]),
                 !.lastScanTime = s2.now]

scanNetworks(s, blocking, e) ==
    IF blocking THEN performScan(s, e)
    ELSE [s EXCEPT !.lastScanTime = s.now, !.scans = Append(s.scans, s.now),
                   !.lastScanStart = s.now]

\* getRSSIForNetwork's search, as connectToBestNetwork does it: the first
\* scan result named ssid, 0 if there is none
ScanIndex(scanned, ssid) == IndexOf(scanned, ssid)

-----------------------------------------------------------------------------
(* The selection of connectToBestNetwork.                                  *)

Score(savedNet, scannedNet) == (savedNet.priority * PRIORITY_WEIGHT) + scannedNet.rssi

\* (a faulty variant: autoConnect not looked at)
CandidateInScan(savedNet, j) == j # 0

\* whether the loop scores the entry: it is to be connected automatically and
\* is in the scan results, at index j
Candidate(savedNet, j) == savedNet.autoConnect /\ j # 0

\* whether the loop takes the entry as the best so far
Better(score, bestScore) == score > bestScore

RECURSIVE BestFrom(_, _, _, _, _)
BestFrom(saved, scanned, i, bestScore, bestNet) ==
    IF i > Len(saved) THEN bestNet
    ELSE LET j == ScanIndex(scanned, saved[i].ssid)
         IN  IF Candidate(saved[i], j)
                /\ Better(Score(saved[i], scanned[j]), bestScore)
             THEN BestFrom(saved, scanned, i + 1, Score(saved[i], scanned[j]), i)
             ELSE BestFrom(saved, scanned, i + 1, bestScore, bestNet)

\* the index of the chosen entry, 0 for bestNet = nullptr
BestNetwork(saved, scanned) ==
    BestFrom(saved, scanned, 1, 0 - INITIAL_BEST_SCORE_BELOW, 0)

-----------------------------------------------------------------------------
(* The connection.                                                         *)

\* the poll at which the timeout check of the loop fires, 0 if none does:
\* after n polls millis() - _connectionStartTime is n delays and the jitter
TimeoutPoll(jitter) ==
    LET late == {n \in 1..CONNECT_POLLS : (n * POLL_DELAY) + jitter > CONNECTION_TIMEOUT}
    IN  IF late = {} THEN 0 ELSE CHOOSE n \in late : \A m \in late : n <= m

\* how the wait of connectToWiFi ends
ConnectOutcome(e) ==
    LET t == TimeoutPoll(e.jitter)
    IN  IF e.linkAt <= CONNECT_POLLS /\ (t = 0 \/ e.linkAt < t) THEN "connected"
        ELSE IF t # 0 THEN "timeout"
        ELSE "failed"

\* the branch of connectToWiFi for WiFi.status() == WL_CONNECTED after the wait
ConnectSuccess(s, i, e) ==
    LET s1 == [s EXCEPT !.state = WIFI_STATE_CONNECTED,
                        !.currentSSID = s.saved[i].ssid,
                        !.currentRSSI = e.linkRssi,
                        !.saved[i].lastConnected = s.now,
                        !.saved[i].connectionAttempts = @ + 1,
                        !.saved[i].rssi = e.linkRssi]
        s2 == IF s1.apEnabled THEN startAPSTA(s1, e) ELSE s1
    IN  [saveNetworks(s2) EXCEPT !.reconnectAttempts = 0, !.autoAttempts = 0,
                                 !.ret = TRUE]

\* the timeout check inside the loop
ConnectTimeout(s, i) ==
    [s EXCEPT !.saved[i].connectionAttempts = @ + 1,
              !.state = WIFI_STATE_DISCONNECTED, !.ret = FALSE]

\* the branch for a loop that ends without a link
ConnectFailed(s, i, e) ==
    LET s1 == [s EXCEPT !.saved[i].connectionAttempts = @ + 1,
                        !.state = WIFI_STATE_DISCONNECTED]
        s2 == IF s1.apEnabled /\ s1.state # WIFI_STATE_AP_MODE
              THEN startAPMode(s1, e) ELSE s1
    IN  [s2 EXCEPT !.ret = FALSE]

\* connectToWiFi(network), network being _savedNetworks[i]
connectToWiFi(s, i, e) ==
    LET s1 == Delay(StationOff(s), POLL_DELAY)
        s2 == SetMode(s1, IF s1.apEnabled THEN WIFI_AP_STA ELSE WIFI_STA)
        s3 == [s2 EXCEPT !.staSSID = s.saved[i].ssid, !.begun = s.saved[i].ssid,
                         !.connectionStartTime = s2.now,
                         !.lastConnectionAttempt = s2.now,
                         !.state = WIFI_STATE_CONNECTING, !.connecting = TRUE]
        t == TimeoutPoll(e.jitter)
        outcome == ConnectOutcome(e)
    IN  IF outcome = "connected"
        THEN ConnectSuccess(
                 [Delay(s3, IF e.linkAt = 0 THEN 0 ELSE (e.linkAt * POLL_DELAY) + e.jitter)
                  EXCEPT !.wl = WL_CONNECTED], i, e)
        ELSE IF outcome = "timeout"
        THEN ConnectTimeout(
                 [Delay(s3, (t * POLL_DELAY) + e.jitter)
                  EXCEPT !.wl = IF e.linkAt = t THEN WL_CONNECTED ELSE WL_DISCONNECTED], i)
        ELSE ConnectFailed(
                 [Delay(s3, (CONNECT_POLLS * POLL_DELAY) + e.jitter)
                  EXCEPT !.wl = WL_DISCONNECTED], i, e)

\* (a faulty variant: an unknown name ends like a failed attempt)
connectToNetworkResetting(s, ssid, e) ==
    LET i == IndexOf(s.saved, ssid)
    IN  IF i # 0 THEN connectToWiFi(s, i, e)
        ELSE [s EXCEPT !.state = WIFI_STATE_DISCONNECTED, !.ret = FALSE]

connectToNetwork(s, ssid, e) ==
    LET i == IndexOf(s.saved, ssid)
    IN  IF i # 0 THEN connectToWiFi(s, i, e) ELSE [s EXCEPT !.ret = FALSE]

connectToBestNetwork(s, e) ==
    IF Len(s.saved) = 0
    THEN [s EXCEPT !.ret = FALSE]
    ELSE \* s1 is the manager after the scan, which runs once
         CHOOSE r \in
             {LET bestNet == BestNetwork(s1.saved, s1.scanned)
              IN  IF bestNet # 0 THEN connectToWiFi(s1, bestNet, e)
                  ELSE [s1 EXCEPT !.ret = FALSE] :
                  s1 \in {scanNetworks(s, TRUE, e)}} : TRUE

disconnect(s, e) ==
    LET s1 == [StationOff(s) EXCEPT !.state = WIFI_STATE_DISCONNECTED,
                                    !.currentSSID = NoSSID, !.currentRSSI = 0]
    IN  IF s1.apEnabled THEN startAPMode(s1, e) ELSE s1

checkConnectionStatus(s, e) ==
    LET s1 == [s EXCEPT !.lastStatus = s.wl]
        s2 == IF s.wl = s.lastStatus THEN s
              ELSE IF s.wl = WL_CONNECTED
              THEN IF s.state # WIFI_STATE_CONNECTED
                   THEN [s1 EXCEPT !.state = WIFI_STATE_CONNECTED,
                                   !.currentRSSI = e.linkRssi,
                                   !.autoAttempts = 0]
                   ELSE s1
              ELSE IF s.wl = WL_DISCONNECTED
              THEN IF s.state = WIFI_STATE_CONNECTED
                   THEN LET s3 == [s1 EXCEPT !.state = WIFI_STATE_DISCONNECTED]
                        IN  IF s3.apEnabled /\ s3.state # WIFI_STATE_AP_MODE
                            THEN startAPMode(s3, e) ELSE s3
                   ELSE s1
              ELSE s1
    IN  IF s2.state = WIFI_STATE_CONNECTED
           /\ s2.now % RSSI_REFRESH_PERIOD < RSSI_REFRESH_WINDOW
        THEN [s2 EXCEPT !.currentRSSI = e.linkRssi]
        ELSE s2

\* (a faulty variant: no limit on the attempts)
AutoReconnectUnlimited(s, currentTime, e) ==
    IF /\ s.state = WIFI_STATE_DISCONNECTED
       /\ s.apEnabled
       /\ Len(s.saved) > 0
       /\ Sub32(currentTime, s.lastConnectionAttempt) > RECONNECT_INTERVAL
    THEN connectToBestNetwork(
             [s EXCEPT !.reconnectAttempts = (@ + 1) % UINT8,
                       !.auto = TRUE, !.lastAutoAttempt = currentTime,
                       !.autoAttempts = @ + 1], e)
    ELSE s

\* the auto-reconnect block of update
AutoReconnect(s, currentTime, e) ==
    IF /\ s.state = WIFI_STATE_DISCONNECTED
       /\ s.apEnabled
       /\ Len(s.saved) > 0
       /\ Sub32(currentTime, s.lastConnectionAttempt) > RECONNECT_INTERVAL
    THEN IF s.reconnectAttempts < MAX_RECONNECT_ATTEMPTS
         THEN connectToBestNetwork(
                  [s EXCEPT !.reconnectAttempts = (@ + 1) % UINT8,
                            !.auto = TRUE, !.lastAutoAttempt = currentTime,
                            !.autoAttempts = @ + 1], e)
         ELSE IF ~s.apEnabled THEN startAPMode(s, e) ELSE s
    ELSE s

\* the periodic scan of update
PeriodicScan(s, currentTime, e) ==
    IF Sub32(currentTime, s.lastScanTime) > WIFI_SCAN_INTERVAL
    THEN scanNetworks(s, FALSE, e)
    ELSE s

handleScanRequest(s, e) == performScan(s, e)

\* (the answers sent to the client are left out)
handleConnectRequest(s, e) ==
    LET q == e.request
    IN  IF q.ssid = NoSSID THEN s
        ELSE LET s1 == addNetwork(s, q.ssid, q.password, q.priority, q.autoConnect)
             IN  IF s1.ret /\ q.connectNow
                 THEN connectToNetwork(s1, q.ssid, e)
                 ELSE s1

\* _webServer.handleClient() with the request e.request waiting, if any: the
\* handler that setupWebServer has registered for its path runs
handleClient(s, e) ==
    IF e.request.path = "/api/wifi/scan" THEN handleScanRequest(s, e)
    ELSE IF e.request.path = "/api/wifi/connect" THEN handleConnectRequest(s, e)
    ELSE s

\* s1 is the manager when the auto-reconnect block is reached, s2 when the
\* periodic scan is; each is computed once.  stampAhead: a time stamp that
\* update subtracts from currentTime is later than currentTime (the difference
\* with _lastConnectionAttempt is the last operand of the && and is computed
\* only if the three before it hold)
update(s, e) ==
    IF ~s.initialized THEN s
    ELSE LET currentTime == s.now
         IN  CHOOSE r \in UNION
                 {{[PeriodicScan(s2, currentTime, e) EXCEPT !.stampAhead =
                       \/ /\ s1.state = WIFI_STATE_DISCONNECTED
                          /\ s1.apEnabled
                          /\ Len(s1.saved) > 0
                          /\ s1.lastConnectionAttempt > currentTime
                       \/ s2.lastScanTime > currentTime] :
                    s2 \in {AutoReconnect(s1, currentTime, e)}} :
                  s1 \in {checkConnectionStatus(handleClient(s, e), e)}} : TRUE

begin(s, e) ==
    LET s1 == [loadNetworks(s) EXCEPT !.state = WIFI_STATE_DISCONNECTED,
                                      !.apEnabled = s.nvsApEnabled]
        s2 == IF s1.apEnabled THEN startAPMode(s1, e) ELSE s1
        s3 == IF Len(s2.saved) > 0 THEN connectToBestNetwork(s2, e) ELSE s2
    IN  [s3 EXCEPT !.initialized = TRUE, !.ret = TRUE]

-----------------------------------------------------------------------------
(* The data-fetch collaborator, src/APIManager.cpp.  An input record q     *)
(* says what its caller and the server do during one fetchPortfolioData:   *)
(*   q.name          the portfolio name                                    *)
(*   q.isExitMode    the mode asked for                                    *)
(*   q.hasInfo       whether the caller passes an APIResponseInfo          *)
(*   q.configured    whether the API server and user name are configured   *)
(*   q.codes         the HTTP code of each of the MAX_RETRIES requests     *)
(*   q.responseTime  how long a request takes                              *)
(*   q.payload       what the server sends with HTTP_CODE_OK               *)
(***************************************************************************)

isConnected(s) == s.state \in {WIFI_STATE_CONNECTED, WIFI_STATE_AP_STA_MODE}

isAPMode(s) == s.state \in {WIFI_STATE_AP_MODE, WIFI_STATE_AP_STA_MODE}

PortfolioNames == {"main"}

\* cacheKey: portfolioName + "_exit" or "_entry"
CacheKeys == PortfolioNames \X BOOLEAN

CacheKey(name, isExitMode) == <<name, isExitMode>>

\* a key that is not in _apiCache
NoEntry == [timestamp |-> NoTime, response |-> NoResponse]

NoStats == [successCount |-> 0, errorCount |-> 0, totalResponseTime |-> 0,
            lastApiCallTime |-> 0]

\* the APIManager as its constructor leaves it, and the static local of
\* updateStatistics
ApiPowerOn ==
    [cacheEnabled |-> TRUE, cache |-> [k \in CacheKeys |-> NoEntry],
     successCount |-> 0, errorCount |-> 0, lastApiCallTime |-> 0,
     totalResponseTime |-> 0, averageResponseTime |-> 0,
     lastSaveTime |-> 0, nvsStats |-> NoStats]

isCacheValid(s, key) ==
    /\ s.api.cache[key] # NoEntry
    /\ Sub32(s.now, s.api.cache[key].timestamp) < API_CACHE_DURATION

getCachedResponse(s, key) ==
    IF s.api.cache[key] # NoEntry THEN s.api.cache[key].response ELSE NoResponse

\* (the cache of the model has fewer than the 10 entries beyond which
\* cacheResponse removes the oldest)
cacheResponse(s, key, response) ==
    [s EXCEPT !.api.cache[key] = [timestamp |-> s.now, response |-> response]]

saveStatistics(s) ==
    [s EXCEPT !.api.nvsStats =
        [successCount |-> s.api.successCount, errorCount |-> s.api.errorCount,
         totalResponseTime |-> s.api.totalResponseTime,
         lastApiCallTime |-> s.api.lastApiCallTime]]

updateStatistics(s, success, responseTime) ==
    LET s1 == [s EXCEPT !.api.lastApiCallTime = s.now,
                        !.api.successCount = IF success THEN @ + 1 ELSE @,
                        !.api.errorCount = IF success THEN @ ELSE @ + 1,
                        !.api.totalResponseTime = @ + responseTime]
        s2 == [s1 EXCEPT !.api.averageResponseTime =
                  s1.api.totalResponseTime \div
                      (s1.api.successCount + s1.api.errorCount)]
    IN  IF Sub32(s2.now, s2.api.lastSaveTime) > STATS_SAVE_INTERVAL
        THEN [saveStatistics(s2) EXCEPT !.api.lastSaveTime = s2.now]
        ELSE s2

\* written to the APIResponseInfo, if the caller has passed one
Info(s, q, info) == IF q.hasInfo THEN [s EXCEPT !.fetch.info = info] ELSE s

makeAPICall(s, q, code) ==
    LET s1 == [Delay(s, q.responseTime) EXCEPT !.fetch.http = @ + 1]
        s2 == updateStatistics(s1, code = HTTP_CODE_OK, q.responseTime)
        s3 == Info(s2, q, [s2.fetch.info EXCEPT !.httpCode = code,
                                                !.responseTime = q.responseTime,
                                                !.fromCache = FALSE])
    IN  IF code = HTTP_CODE_OK
        THEN [Info(s3, q, [s3.fetch.info EXCEPT !.success = TRUE])
              EXCEPT !.fetch.response = q.payload, !.ret = TRUE]
        ELSE [Info(s3, q, [s3.fetch.info EXCEPT
                              !.success = FALSE,
                              !.error = IF code <= 0 THEN "Connection failed"
                                        ELSE "HTTP Error"])
              EXCEPT !.fetch.log = "API call failed", !.ret = FALSE]

\* the loop of fetchPortfolioData from its attempt-th pass on
RECURSIVE Retry(_, _, _)
Retry(s, q, attempt) ==
    IF attempt >= MAX_RETRIES
    THEN [s EXCEPT !.fetch.log = "All API retries failed", !.ret = FALSE]
    ELSE LET s1 == IF attempt > 0 THEN Delay(s, RETRY_DELAY * attempt) ELSE s
             s2 == makeAPICall(s1, q, q.codes[attempt + 1])
         IN  IF s2.ret
             THEN IF s2.api.cacheEnabled
                  THEN cacheResponse(s2, CacheKey(q.name, q.isExitMode), s2.fetch.response)
                  ELSE s2
             ELSE Retry(s2, q, attempt + 1)

\* (a faulty variant: the cache is looked at before the connection)
fetchPortfolioDataCacheFirst(s, q) ==
    LET cacheKey == CacheKey(q.name, q.isExitMode)
        s0 == [s EXCEPT !.fetch.hasInfo = q.hasInfo, !.fetch.exitMode = q.isExitMode]
    IN  IF s0.api.cacheEnabled /\ isCacheValid(s0, cacheKey)
        THEN [Info(s0, q, [s0.fetch.info EXCEPT !.success = TRUE, !.fromCache = TRUE])
              EXCEPT !.fetch.response = getCachedResponse(s0, cacheKey), !.ret = TRUE]
        ELSE IF ~isConnected(s0)
        THEN [Info(s0, q, [s0.fetch.info EXCEPT !.success = FALSE,
                                                !.error = "WiFi not connected",
                                                !.httpCode = 0])
              EXCEPT !.fetch.log = "Cannot fetch data: WiFi not connected",
                     !.ret = FALSE]
        ELSE IF ~q.configured
        THEN [Info(s0, q, [s0.fetch.info EXCEPT !.success = FALSE,
                                                !.error = "API configuration incomplete"])
              EXCEPT !.fetch.log = "API configuration incomplete", !.ret = FALSE]
        ELSE Retry(s0, q, 0)

fetchPortfolioData(s, q) ==
    LET cacheKey == CacheKey(q.name, q.isExitMode)
        s0 == [s EXCEPT !.fetch.hasInfo = q.hasInfo, !.fetch.exitMode = q.isExitMode]
    IN  IF ~isConnected(s0)
        THEN [Info(s0, q, [s0.fetch.info EXCEPT !.success = FALSE,
                                                !.error = "WiFi not connected",
                                                !.httpCode = 0])
              EXCEPT !.fetch.log = "Cannot fetch data: WiFi not connected",
                     !.ret = FALSE]
        ELSE IF s0.api.cacheEnabled /\ isCacheValid(s0, cacheKey)
        THEN [Info(s0, q, [s0.fetch.info EXCEPT !.success = TRUE, !.fromCache = TRUE])
              EXCEPT !.fetch.response = getCachedResponse(s0, cacheKey), !.ret = TRUE]
        ELSE IF ~q.configured
        THEN [Info(s0, q, [s0.fetch.info EXCEPT !.success = FALSE,
                                                !.error = "API configuration incomplete"])
              EXCEPT !.fetch.log = "API configuration incomplete", !.ret = FALSE]
        ELSE Retry(s0, q, 0)

-----------------------------------------------------------------------------
(* The operations as actions.  Each takes the sets its inputs are drawn    *)
(* from and the time at which the model stops.                             *)

PowerOn ==
    /\ _savedNetworks = <<>>
    /\ _scannedNetworks = <<>>
    /\ _state = WIFI_STATE_DISCONNECTED
    /\ _apEnabled = TRUE
    /\ _initialized = FALSE
    /\ _lastScanTime = 0
    /\ _lastConnectionAttempt = 0
    /\ _connectionStartTime = 0
    /\ _reconnectAttempts = 0
    /\ _currentSSID = NoSSID
    /\ _currentRSSI = 0
    /\ lastStatus = WL_IDLE_STATUS
    /\ millis = 0
    /\ wlStatus = WL_NO_SHIELD
    /\ wifiMode = WIFI_OFF
    /\ staSSID = NoSSID
    /\ softAP = FALSE
    /\ lastCall = [name |-> "power-on", ssid |-> NoSSID, ret |-> FALSE, begun |-> NoSSID,
                   connecting |-> FALSE, auto |-> FALSE, scans |-> <<>>,
                   blockingScan |-> FALSE, report |-> <<>>,
                   stampAhead |-> FALSE, fetch |-> NoFetch]
    /\ trace = [lastScanStart |-> NoTime, lastAutoAttempt |-> NoTime, autoAttempts |-> 0]
    /\ api = ApiPowerOn

\* the device as it leaves the factory: nothing stored
Init ==
    /\ PowerOn
    /\ nvsNetworks = <<>>
    /\ nvsApEnabled = TRUE

\* a power cycle: the fields are initialized again, the flash is kept
Reboot ==
    /\ _initialized
    /\ Commit([saved |-> <<>>, scanned |-> <<>>, state |-> WIFI_STATE_DISCONNECTED,
               apEnabled |-> TRUE, initialized |-> FALSE, lastScanTime |-> 0,
               lastConnectionAttempt |-> 0, connectionStartTime |-> 0,
               reconnectAttempts |-> 0, currentSSID |-> NoSSID, currentRSSI |-> 0,
               lastStatus |-> WL_IDLE_STATUS, nvsNetworks |-> nvsNetworks,
               nvsApEnabled |-> nvsApEnabled, now |-> 0, wl |-> WL_NO_SHIELD,
               mode |-> WIFI_OFF, staSSID |-> NoSSID, softAP |-> FALSE,
               lastScanStart |-> NoTime, lastAutoAttempt |-> NoTime,
               autoAttempts |-> 0,
               api |-> [ApiPowerOn EXCEPT !.nvsStats = api.nvsStats],
               begun |-> NoSSID, ret |-> FALSE, connecting |-> FALSE, auto |-> FALSE,
               scans |-> <<>>, blockingScan |-> FALSE, report |-> <<>>,
               stampAhead |-> FALSE, fetch |-> NoFetch],
              "power-on", NoSSID, 0)

Begin(envs, maxTime) ==
    /\ ~_initialized
    /\ \E e \in envs : Commit(begin(View, e), "begin", NoSSID, maxTime)

Update(envs, maxTime) ==
    /\ _initialized
    /\ \E e \in envs : \E r \in {update(View, e)} : Commit(r, "update", NoSSID, maxTime)

AddNetwork(ssids, passwords, priorities, autos, maxTime) ==
    /\ _initialized
    /\ \E ssid \in ssids, password \in passwords, priority \in priorities,
          autoConnect \in autos :
          Commit(addNetwork(View, ssid, password, priority, autoConnect),
                 "addNetwork", ssid, maxTime)

RemoveNetwork(ssids, maxTime) ==
    /\ _initialized
    /\ \E ssid \in ssids : Commit(removeNetwork(View, ssid), "removeNetwork", ssid, maxTime)

ConnectToNetwork(ssids, envs, maxTime) ==
    /\ _initialized
    /\ \E ssid \in ssids, e \in envs :
          Commit(connectToNetwork(View, ssid, e), "connectToNetwork", ssid, maxTime)

\* (a scan that would end after maxTime is not tried: Commit would refuse it)
ConnectToBestNetwork(envs, maxTime) ==
    /\ _initialized
    /\ \E e \in envs :
          /\ Len(_savedNetworks) > 0 => millis + e.scanTime <= maxTime
          /\ Commit(connectToBestNetwork(View, e), "connectToBestNetwork", NoSSID, maxTime)

Disconnect(envs, maxTime) ==
    /\ _initialized
    /\ \E e \in envs : Commit(disconnect(View, e), "disconnect", NoSSID, maxTime)

StartAPMode(envs, maxTime) ==
    /\ _initialized
    /\ \E e \in envs : Commit(startAPMode(View, e), "startAPMode", NoSSID, maxTime)

StopAPMode(maxTime) ==
    /\ _initialized
    /\ Commit(stopAPMode(View), "stopAPMode", NoSSID, maxTime)

StartAPSTA(envs, maxTime) ==
    /\ _initialized
    /\ \E e \in envs : Commit(startAPSTA(View, e), "startAPSTA", NoSSID, maxTime)

\* (the statistics count at most maxCalls requests)
FetchPortfolioData(queries, maxCalls, maxTime) ==
    /\ _initialized
    /\ \E q \in queries : \E r \in {fetchPortfolioData(View, q)} :
          /\ r.api.successCount + r.api.errorCount <= maxCalls
          /\ Commit(r, "fetchPortfolioData", q.name, maxTime)

\* the radio loses the link
LinkLost ==
    /\ wlStatus = WL_CONNECTED
    /\ Commit([View EXCEPT !.wl = WL_DISCONNECTED], "radio", NoSSID, millis)

\* the radio, told to reconnect by itself (WiFi.setAutoReconnect(true)), gets
\* the link to the network of the last WiFi.begin
LinkUp ==
    /\ wlStatus # WL_CONNECTED
    /\ HasSta(wifiMode)
    /\ staSSID # NoSSID
    /\ Commit([View EXCEPT !.wl = WL_CONNECTED], "radio", NoSSID, millis)

\* time passes between two operations
Advance(steps, maxTime) ==
    \E d \in steps : Commit(Delay(View, d), "idle", NoSSID, maxTime)

-----------------------------------------------------------------------------
(* The inputs.                                                             *)

Reports(ssids, rssis) ==
    UNION {[1..n -> [ssid : ssids, rssi : rssis]] : n \in 0..MaxScan}

\* no request waits at the web server
NoRequest ==
    [path |-> "", ssid |-> NoSSID, password |-> "", priority |-> 0,
     autoConnect |-> FALSE, connectNow |-> FALSE]

Envs(reports, scanTimes, linkAts, jitters, linkRssis, apOks) ==
    [report : reports, scanTime : scanTimes, linkAt : linkAts, jitter : jitters,
     linkRssi : linkRssis, apOk : apOks, request : {NoRequest}]

\* the inputs envs with one of requests waiting at the web server
WebEnvs(envs, requests) == {[e EXCEPT !.request = q] : e \in envs, q \in requests}

\* the inputs of an operation that only starts or stops the access point
ApEnvs(apOks) == Envs({<<>>}, {0}, {0}, {0}, {0}, apOks)

\* the inputs of an operation that connects without a scan
ConnectEnvs(linkAts, jitters, linkRssis, apOks) ==
    Envs({<<>>}, {0}, linkAts, jitters, linkRssis, apOks)

\* The specification of the state machine: one network to know, two names.
SSIDs == {"Home"}

OtherSSIDs == {"Cafe"}

Passwords == {"secret"}

Priorities == {5}

RssiValues == {0 - 60}

LinkRssiValues == {0 - 55}

\* the link comes up during the first poll, or not at all
LinkAts == {1, CONNECT_POLLS + 1}

\* the polls take no time beyond their delays, or one more delay
Jitters == {0, POLL_DELAY}

ScanTimes == {2000}

IdleSteps == {RECONNECT_INTERVAL + POLL_DELAY}

SpecEnvs ==
    Envs(Reports(SSIDs, RssiValues), ScanTimes, LinkAts, Jitters, LinkRssiValues, BOOLEAN)

SpecConnectEnvs == ConnectEnvs(LinkAts, Jitters, LinkRssiValues, BOOLEAN)

Next ==
    \/ Begin(SpecEnvs, MaxTime)
    \/ Update(SpecEnvs, MaxTime)
    \/ AddNetwork(SSIDs, Passwords, Priorities, BOOLEAN, MaxTime)
    \/ RemoveNetwork(SSIDs \cup OtherSSIDs, MaxTime)
    \/ ConnectToNetwork(SSIDs \cup OtherSSIDs, SpecConnectEnvs, MaxTime)
    \/ ConnectToBestNetwork(SpecEnvs, MaxTime)
    \/ Disconnect(ApEnvs(BOOLEAN), MaxTime)
    \/ StartAPMode(ApEnvs(BOOLEAN), MaxTime)
    \/ StopAPMode(MaxTime)
    \/ StartAPSTA(ApEnvs(BOOLEAN), MaxTime)
    \/ LinkLost
    \/ LinkUp
    \/ Reboot

Spec == Init /\ [][Next]_vars

-----------------------------------------------------------------------------
(* The specification of the store: a device that starts with a full store  *)
(* in its flash.  A stored list is one that saveNetworks can have written: *)
(* addNetwork of n1 .. n5 in this order with one priority, then addNetwork *)
(* again with any priority for each (the update leaves the order), and a   *)
(* successful connectToNetwork for the entries with a lastConnected.       *)

StoreSSIDs == <<"n1", "n2", "n3", "n4", "n5">>

NewSSID == "n6"

StorePriorities == {1, 3}

StoreStamps == {0, 1000}

StoredEntry(ssid, priority, stamp) ==
    [ssid |-> ssid, password |-> "secret", priority |-> priority,
     autoConnect |-> TRUE, lastConnected |-> stamp,
     connectionAttempts |-> IF stamp = 0 THEN 0 ELSE 1,
     rssi |-> IF stamp = 0 THEN 0 ELSE 0 - 55]

StoredLists ==
    {[i \in 1..MAX_WIFI_NETWORKS |-> StoredEntry(StoreSSIDs[i], p[i], t[i])] :
        p \in [1..MAX_WIFI_NETWORKS -> StorePriorities],
        t \in [1..MAX_WIFI_NETWORKS -> StoreStamps]}

InitStore ==
    /\ PowerOn
    /\ nvsNetworks \in StoredLists
    /\ nvsApEnabled = TRUE

\* no network is in the air; a connection by name succeeds at the first poll
StoreEnvs == Envs({<<>>}, ScanTimes, {1}, {0}, LinkRssiValues, {TRUE})

NextStore ==
    \/ Begin(StoreEnvs, StoreMaxTime)
    \/ AddNetwork({StoreSSIDs[5], NewSSID}, Passwords, StorePriorities, {TRUE}, StoreMaxTime)
    \/ RemoveNetwork({StoreSSIDs[1], NewSSID}, StoreMaxTime)
    \/ ConnectToNetwork({StoreSSIDs[2], NewSSID}, StoreEnvs, StoreMaxTime)

SpecStore == InitStore /\ [][NextStore]_vars

-----------------------------------------------------------------------------
(* The specification of the selection: two networks to know, with two      *)
(* priorities, seen in the air at two strengths.                          *)

SelectSSIDs == {"Home", "Cafe"}

SelectPriorities == {1, 2}

\* WiFi.RSSI(i) is the int8_t of the driver's scan record
SelectRssiValues == {0 - 120, 0 - 10}

SelectEnvs ==
    Envs(Reports(SelectSSIDs, SelectRssiValues), ScanTimes, LinkAts, {0},
         LinkRssiValues, {TRUE})

NextSelect ==
    \/ Begin(SelectEnvs, SelectMaxTime)
    \/ AddNetwork(SelectSSIDs, Passwords, SelectPriorities, BOOLEAN, SelectMaxTime)
    \/ RemoveNetwork(SelectSSIDs, SelectMaxTime)
    \/ ConnectToBestNetwork(SelectEnvs, SelectMaxTime)
    \/ Reboot

SpecSelect == Init /\ [][NextSelect]_vars

-----------------------------------------------------------------------------
(* The specification of the reconnection: one network, which is or is not  *)
(* in the air, and the loop that calls update as time passes.              *)

ReconnectEnvs ==
    Envs(Reports(SSIDs, RssiValues), ScanTimes, LinkAts, Jitters, LinkRssiValues, {TRUE})

ReconnectConnectEnvs == ConnectEnvs(LinkAts, Jitters, LinkRssiValues, {TRUE})

NextReconnect ==
    \/ Begin(ReconnectEnvs, ReconnectMaxTime)
    \/ Update(ReconnectEnvs, ReconnectMaxTime)
    \/ AddNetwork(SSIDs, Passwords, Priorities, {TRUE}, ReconnectMaxTime)
    \/ ConnectToNetwork(SSIDs, ReconnectConnectEnvs, ReconnectMaxTime)
    \/ LinkLost
    \/ LinkUp
    \/ Advance(IdleSteps, ReconnectMaxTime)

SpecReconnect == Init /\ [][NextReconnect]_vars

-----------------------------------------------------------------------------
(* The specification of the fallback: a device that knows one network,     *)
(* which is never in the air.  The administration surface sets the device  *)
(* up (a network is added, a connection to it is tried, the access point   *)
(* is stopped, the station is disconnected); from the first update on, the *)
(* loop alone runs: it calls update, and time passes while update waits    *)
(* for the reconnect interval.  The loop never ends, so update and the     *)
(* passing of time are fair.                                               *)

\* the set-up ends within FallbackSetupTime
FallbackSetupTime == 25000

\* the clock stops the fallback specification at FallbackMaxTime, which the
\* loop does not reach: MAX_RECONNECT_ATTEMPTS waits and scans end before
FallbackMaxTime == 200000

\* only a stranger is in the air, and the known network never answers
FallbackEnvs ==
    Envs(Reports(OtherSSIDs, RssiValues), ScanTimes, {CONNECT_POLLS + 1}, Jitters,
         LinkRssiValues, {TRUE})

FallbackConnectEnvs == ConnectEnvs({CONNECT_POLLS + 1}, Jitters, LinkRssiValues, {TRUE})

\* the loop has not yet called update
SetupPhase == lastCall.name \notin {"update", "idle"}

\* update will try to reconnect once the reconnect interval is over
ReconnectPending ==
    /\ _state = WIFI_STATE_DISCONNECTED
    /\ _apEnabled
    /\ Len(_savedNetworks) > 0
    /\ _reconnectAttempts < MAX_RECONNECT_ATTEMPTS
    /\ ~(Sub32(millis, _lastConnectionAttempt) > RECONNECT_INTERVAL)

FallbackSetup ==
    /\ SetupPhase
    /\ \/ AddNetwork(SSIDs, Passwords, Priorities, {TRUE}, FallbackSetupTime)
       \/ ConnectToNetwork(SSIDs, FallbackConnectEnvs, FallbackSetupTime)
       \/ StopAPMode(FallbackSetupTime)
       \/ Disconnect(ApEnvs({TRUE}), FallbackSetupTime)

FallbackUpdate ==
    /\ Len(_savedNetworks) > 0
    /\ Update(FallbackEnvs, FallbackMaxTime)

FallbackWait ==
    /\ _initialized
    /\ ReconnectPending
    /\ Advance(IdleSteps, FallbackMaxTime)

NextFallback ==
    \/ Begin(FallbackEnvs, FallbackSetupTime)
    \/ FallbackSetup
    \/ FallbackUpdate
    \/ FallbackWait

SpecFallback ==
    /\ Init
    /\ [][NextFallback]_vars
    /\ WF_vars(FallbackUpdate)
    /\ WF_vars(FallbackWait)

-----------------------------------------------------------------------------
(* The specification of the visible network: a device that knows one       *)
(* network, which is in the air at every scan and answers every attempt    *)
(* of the loop.  As in the fallback, the administration surface sets the   *)
(* device up (one of its attempts may find the network not yet answering), *)
(* then the loop alone runs, and update and the passing of time are fair.  *)

\* the loop of the visible-network specification is followed for
\* VisibleWaitTime: four reconnect intervals, two scan intervals
VisibleWaitTime == 130000

\* the clock stops the visible-network specification at VisibleMaxTime
VisibleMaxTime == 200000

VisibleReports == {<<[ssid |-> ssid, rssi |-> rssi]>> : ssid \in SSIDs, rssi \in RssiValues}

VisibleEnvs == Envs(VisibleReports, ScanTimes, {1}, {0}, LinkRssiValues, {TRUE})

\* during the set-up the network answers at the first poll or not at all
VisibleConnectEnvs == ConnectEnvs(LinkAts, {POLL_DELAY}, LinkRssiValues, {TRUE})

\* (one attempt is made by hand, so that the attempts of the loop stay within
\* MaxConnAttempts)
VisibleSetup ==
    /\ SetupPhase
    /\ \/ AddNetwork(SSIDs, Passwords, Priorities, {TRUE}, FallbackSetupTime)
       \/ /\ \A i \in 1..Len(_savedNetworks) : _savedNetworks[i].connectionAttempts = 0
          /\ ConnectToNetwork(SSIDs, VisibleConnectEnvs, FallbackSetupTime)
       \/ StopAPMode(FallbackSetupTime)
       \/ Disconnect(ApEnvs({TRUE}), FallbackSetupTime)

VisibleUpdate ==
    /\ Len(_savedNetworks) > 0
    /\ Update(VisibleEnvs, VisibleMaxTime)

\* time passes while the device has no station link
VisibleWait ==
    /\ _initialized
    /\ _state \in {WIFI_STATE_DISCONNECTED, WIFI_STATE_AP_MODE}
    /\ millis <= VisibleWaitTime
    /\ Advance(IdleSteps, VisibleMaxTime)

NextVisible ==
    \/ Begin(VisibleEnvs, FallbackSetupTime)
    \/ VisibleSetup
    \/ VisibleUpdate
    \/ VisibleWait

SpecVisible ==
    /\ Init
    /\ [][NextVisible]_vars
    /\ WF_vars(VisibleUpdate)
    /\ WF_vars(VisibleWait)

-----------------------------------------------------------------------------
(* The specification of the link: a device that knows one network, which   *)
(* answers at the first poll; the access point is started and stopped, and *)
(* the radio loses the link between the operations.                        *)

\* the clock stops the link specification at LinkMaxTime: two connections,
\* an access point started after each
LinkMaxTime == 2500

LinkEnvs == Envs(Reports(SSIDs, RssiValues), ScanTimes, {1}, {0}, LinkRssiValues, {TRUE})

LinkConnectEnvs == ConnectEnvs({1}, {0}, LinkRssiValues, {TRUE})

NextLink ==
    \/ Begin(LinkEnvs, LinkMaxTime)
    \/ Update(LinkEnvs, LinkMaxTime)
    \/ AddNetwork(SSIDs, Passwords, Priorities, {TRUE}, LinkMaxTime)
    \/ ConnectToNetwork(SSIDs, LinkConnectEnvs, LinkMaxTime)
    \/ StartAPMode(ApEnvs({TRUE}), LinkMaxTime)
    \/ StopAPMode(LinkMaxTime)
    \/ LinkLost

SpecLink == Init /\ [][NextLink]_vars

-----------------------------------------------------------------------------
(* The specification of the fetch: a device that knows one network, which  *)
(* answers at the first poll, connects and disconnects, and is asked for   *)
(* the portfolio in between; the server answers, fails or is not reached.  *)

\* the clock stops the fetch specification at FetchMaxTime: a cached
\* response can become stale
FetchMaxTime == 40000

\* the requests the statistics count in the fetch specification
MaxApiCalls == 4

\* a cached response gets stale in two steps
FetchSteps == {API_CACHE_DURATION \div 2}

ResponseTimes == {200}

Payloads == {"portfolio"}

\* the server answers at once, at the second request, or never
CodeSeqs == {<<HTTP_CODE_OK, HTTP_CODE_OK, HTTP_CODE_OK>>,
             <<500, HTTP_CODE_OK, HTTP_CODE_OK>>,
             <<0 - 1, 500, 0 - 1>>}

Queries ==
    [name : PortfolioNames, isExitMode : BOOLEAN, hasInfo : BOOLEAN,
     configured : BOOLEAN, codes : CodeSeqs, responseTime : ResponseTimes,
     payload : Payloads]

NextFetch ==
    \/ Begin(LinkEnvs, FetchMaxTime)
    \/ AddNetwork(SSIDs, Passwords, Priorities, {TRUE}, FetchMaxTime)
    \/ ConnectToNetwork(SSIDs, LinkConnectEnvs, FetchMaxTime)
    \/ Disconnect(ApEnvs({TRUE}), FetchMaxTime)
    \/ FetchPortfolioData(Queries, MaxApiCalls, FetchMaxTime)
    \/ Advance(FetchSteps, FetchMaxTime)

SpecFetch == Init /\ [][NextFetch]_vars

-----------------------------------------------------------------------------
(* The specification of the web server: a device that knows one network,   *)
(* which is out of reach, and whose update finds a request to scan, or to  *)
(* add a network and connect to it at once, waiting at the web server.     *)

\* the clock stops the web specification at WebMaxTime, before the first
\* periodic scan is due
WebMaxTime == 25000

WebRequests ==
    {NoRequest,
     [NoRequest EXCEPT !.path = "/api/wifi/scan"],
     [NoRequest EXCEPT !.path = "/api/wifi/status"]}
    \cup {[path |-> "/api/wifi/connect", ssid |-> ssid, password |-> "secret",
           priority |-> DEFAULT_PRIORITY, autoConnect |-> TRUE,
           connectNow |-> connectNow] : ssid \in SSIDs, connectNow \in BOOLEAN}

\* the network is seen by no scan and answers no attempt
WebEnvs0 == Envs(Reports(OtherSSIDs, RssiValues), ScanTimes, {CONNECT_POLLS + 1}, Jitters,
                 LinkRssiValues, {TRUE})

WebSteps == {RECONNECT_INTERVAL \div 2}

NextWeb ==
    \/ Begin(WebEnvs0, WebMaxTime)
    \/ Update(WebEnvs(WebEnvs0, WebRequests), WebMaxTime)
    \/ Advance(WebSteps, WebMaxTime)

SpecWeb == Init /\ [][NextWeb]_vars

-----------------------------------------------------------------------------
(* What the claims speak of.                                               *)

Names(nets) == {nets[i].ssid : i \in 1..Len(nets)}

Entries(nets) == {nets[i] : i \in 1..Len(nets)}

\* the step is addNetwork of a name the store does not hold, the store being full
AddsToFullStore ==
    /\ lastCall'.name = "addNetwork"
    /\ Len(_savedNetworks) >= MAX_WIFI_NETWORKS
    /\ lastCall'.ssid \notin Names(_savedNetworks)

\* the entries the step removes
Evicted == {n \in Entries(_savedNetworks) : n.ssid \notin Names(_savedNetworks')}

\* the state is the one connectToBestNetwork left, and it has chosen a network
SelectionMade ==
    /\ lastCall.name \in {"connectToBestNetwork", "begin"}
    /\ lastCall.begun # NoSSID

\* an entry of the store that is to be connected automatically and is in the
\* scan results
Eligible(n) == n.autoConnect /\ ScanIndex(_scannedNetworks, n.ssid) # 0

EligibleEntries == {n \in Entries(_savedNetworks) : Eligible(n)}

\* the eligible entries of the highest priority among the eligible entries
TopEligibleEntries ==
    {n \in EligibleEntries : \A m \in EligibleEntries : m.priority <= n.priority}

ScannedRssi(ssid) == _scannedNetworks[ScanIndex(_scannedNetworks, ssid)].rssi

ChosenEntries == {n \in Entries(_savedNetworks) : n.ssid = lastCall.begun}

-----------------------------------------------------------------------------
(* C1: after every addNetwork the store holds at most MAX_WIFI_NETWORKS    *)
(* entries.                                                                *)
StoreWithinCapacity ==
    lastCall.name = "addNetwork" => Len(_savedNetworks) <= MAX_WIFI_NETWORKS

\* a sixth name has been added to the full store
SixthNetworkAdded ==
    /\ lastCall.name = "addNetwork"
    /\ lastCall.ssid = NewSSID
    /\ NewSSID \in Names(_savedNetworks)
    /\ Len(_savedNetworks) = MAX_WIFI_NETWORKS

(* C2: addNetwork of a new name to a full store removes exactly one entry, *)
(* one of minimum priority, keeps every other entry as it was, and the new *)
(* entry is in the store afterwards.                                       *)
EvictsOneLowestPriority ==
    [][AddsToFullStore =>
          /\ Cardinality(Evicted) = 1
          /\ \A n \in Evicted : \A m \in Entries(_savedNetworks) : n.priority <= m.priority
          /\ Entries(_savedNetworks) \ Evicted \subseteq Entries(_savedNetworks')
          /\ Len(_savedNetworks') = Len(_savedNetworks)
          /\ lastCall'.ssid \in Names(_savedNetworks')]_vars

\* a priority-3 entry has been added to the full store, which lost n1 and
\* nothing else
PriorityThreeReplacedOne ==
    /\ lastCall.name = "addNetwork"
    /\ lastCall.ssid = NewSSID
    /\ \E n \in Entries(_savedNetworks) : n.ssid = NewSSID /\ n.priority = 3
    /\ Names(_savedNetworks) = {NewSSID, StoreSSIDs[2], StoreSSIDs[3], StoreSSIDs[4], StoreSSIDs[5]}

(* C3: of the entries that share the lowest priority the eviction takes the *)
(* one with the oldest lastConnected, a never-connected entry (0) first.   *)
EvictsOldestOfLowest ==
    [][AddsToFullStore =>
          \A n \in Evicted : \A m \in Entries(_savedNetworks) :
              m.priority = n.priority => n.lastConnected <= m.lastConnected]_vars

(* C4: no two entries of the store have the same name.                     *)
UniqueNames ==
    \A i, j \in 1..Len(_savedNetworks) :
        _savedNetworks[i].ssid = _savedNetworks[j].ssid => i = j

\* addNetwork has been called with a name the store held, and has changed
\* the entry: the store is no longer in the order of the priorities
ExistingEntryUpdated ==
    /\ lastCall.name = "addNetwork"
    /\ Len(_savedNetworks) = 2
    /\ _savedNetworks[2].ssid = lastCall.ssid
    /\ _savedNetworks[2].priority > _savedNetworks[1].priority

(* C5: of two eligible entries of different priority the selection takes   *)
(* the one of higher priority, whatever the signals are.                   *)
PriorityDominates ==
    SelectionMade =>
        \A c \in ChosenEntries : \A n \in EligibleEntries : n.priority <= c.priority

(* C6: the selection takes, of the eligible entries that share the highest *)
(* priority, the one with the strongest signal, wherever it is in the      *)
(* store.                                                                  *)
StrongestOfHighestPriority ==
    SelectionMade =>
        \A c \in ChosenEntries : \A n \in TopEligibleEntries :
            /\ c.priority = n.priority
            /\ ScannedRssi(n.ssid) <= ScannedRssi(c.ssid)

\* the part of it that does not lean on the priorities: the chosen entry is
\* the strongest of the eligible entries of its own priority
StrongestOfEqualPriority ==
    SelectionMade =>
        \A c \in ChosenEntries : \A n \in EligibleEntries :
            n.priority = c.priority => ScannedRssi(n.ssid) <= ScannedRssi(c.ssid)

\* the chosen entry is behind a weaker eligible entry of its priority, and
\* no eligible entry has a higher priority
StrongerChosenBehindWeaker ==
    /\ SelectionMade
    /\ \A n \in EligibleEntries : \A c \in ChosenEntries : n.priority <= c.priority
    /\ \E i, j \in 1..Len(_savedNetworks) :
          /\ i < j
          /\ _savedNetworks[j].ssid = lastCall.begun
          /\ Eligible(_savedNetworks[i])
          /\ _savedNetworks[i].priority = _savedNetworks[j].priority
          /\ ScannedRssi(_savedNetworks[i].ssid) < ScannedRssi(_savedNetworks[j].ssid)

(* C7: the network connectToBestNetwork connects to is an entry of the     *)
(* store with autoConnect that is in the scan results; without such an     *)
(* entry it returns false and gives no network to the radio.               *)
SelectionIsEligible ==
    /\ SelectionMade =>
          /\ ChosenEntries # {}
          /\ \A c \in ChosenEntries : Eligible(c)
    /\ (lastCall.name = "connectToBestNetwork" /\ EligibleEntries = {}) =>
          (lastCall.begun = NoSSID /\ lastCall.ret = FALSE)

\* connectToBestNetwork has found the only network in the air in the store,
\* but not for automatic connection, and has returned false
VisibleButNotAutoConnect ==
    /\ lastCall.name = "connectToBestNetwork"
    /\ lastCall.ret = FALSE
    /\ lastCall.begun = NoSSID
    /\ Len(_scannedNetworks) > 0
    /\ \E n \in Entries(_savedNetworks) :
          ~n.autoConnect /\ ScanIndex(_scannedNetworks, n.ssid) # 0

(* C9: connectToNetwork of a name that is not in the store returns false   *)
(* and changes neither the state, the active network, the failure counter  *)
(* nor the store.                                                          *)
UnknownNetworkChangesNothing ==
    [][(lastCall'.name = "connectToNetwork" /\ lastCall'.ssid \notin Names(_savedNetworks)) =>
          /\ lastCall'.ret = FALSE
          /\ UNCHANGED <<_state, _currentSSID, _reconnectAttempts, _savedNetworks>>]_vars

\* connectToNetwork of an unknown name has returned in the hybrid state
UnknownNetworkWhileHybrid ==
    /\ lastCall.name = "connectToNetwork"
    /\ lastCall.ssid \notin Names(_savedNetworks)
    /\ lastCall.ret = FALSE
    /\ _state = WIFI_STATE_AP_STA_MODE
    /\ _currentSSID # NoSSID

(* C10: when update returns with the failure counter at                    *)
(* MAX_RECONNECT_ATTEMPTS and no link, the state is AP_MODE or AP_STA_MODE. *)
AccessPointAfterMaxAttempts ==
    (/\ lastCall.name = "update"
     /\ _reconnectAttempts = MAX_RECONNECT_ATTEMPTS
     /\ wlStatus # WL_CONNECTED)
        => _state \in {WIFI_STATE_AP_MODE, WIFI_STATE_AP_STA_MODE}

(* C11: with a known network that is never in the air, the loop of update  *)
(* calls brings the state to AP_MODE, where it stays.                      *)
FallbackReached == <>[](_state = WIFI_STATE_AP_MODE)

\* the clock of the fallback specification leaves room for one more wait
\* and one more attempt
FallbackClockFree == millis + RECONNECT_INTERVAL + POLL_DELAY + 2000 <= FallbackMaxTime

(* C12: the failure counter never exceeds MAX_RECONNECT_ATTEMPTS, and      *)
(* update calls connectToBestNetwork at most MAX_RECONNECT_ATTEMPTS times  *)
(* between two successful connections.                                     *)
ReconnectionBounded ==
    /\ _reconnectAttempts <= MAX_RECONNECT_ATTEMPTS
    /\ trace.autoAttempts <= MAX_RECONNECT_ATTEMPTS

\* update has found the reconnect interval over and the attempts used up,
\* and has not tried again
AttemptSuppressed ==
    /\ lastCall.name = "update"
    /\ ~lastCall.auto
    /\ _state = WIFI_STATE_DISCONNECTED
    /\ _apEnabled
    /\ Len(_savedNetworks) > 0
    /\ Sub32(millis, _lastConnectionAttempt) > RECONNECT_INTERVAL
    /\ _reconnectAttempts = MAX_RECONNECT_ATTEMPTS
    /\ trace.autoAttempts = MAX_RECONNECT_ATTEMPTS

\* the states with a station link
LinkedStates == {WIFI_STATE_CONNECTED, WIFI_STATE_AP_STA_MODE}

(* C13: whenever the state becomes CONNECTED or AP_STA_MODE, the failure   *)
(* counter is 0 afterwards.                                                *)
CounterResetOnConnection ==
    [][(_state' \in LinkedStates /\ _state' # _state) => _reconnectAttempts' = 0]_vars

(* C14: two automatic reconnect attempts of update that follow each other  *)
(* are more than RECONNECT_INTERVAL apart.                                 *)
AttemptsApart ==
    [][(lastCall'.auto /\ trace.lastAutoAttempt # NoTime) =>
          trace'.lastAutoAttempt - trace.lastAutoAttempt > RECONNECT_INTERVAL]_vars

\* when the radio was asked to scan: the last time before the step, and the
\* times during the step
ScanStarts ==
    (IF trace.lastScanStart # NoTime THEN <<trace.lastScanStart>> ELSE <<>>)
        \o lastCall'.scans

(* C15: two scans of the radio that follow each other start at least       *)
(* WIFI_SCAN_INTERVAL apart.                                               *)
ScansApart ==
    [][lastCall'.scans # <<>> =>
          \A k \in 1..(Len(ScanStarts) - 1) :
              ScanStarts[k + 1] - ScanStarts[k] >= WIFI_SCAN_INTERVAL]_vars

\* the scan results are in the order of descending signal
ScanSorted ==
    \A i, j \in 1..Len(_scannedNetworks) :
        i < j => _scannedNetworks[i].rssi >= _scannedNetworks[j].rssi

\* the list holds the access points of the report, and nothing else
HoldsReport(list, report) ==
    /\ Len(list) = Len(report)
    /\ \A k \in 1..Len(report) : \E i \in 1..Len(list) :
           list[i].ssid = report[k].ssid /\ list[i].rssi = report[k].rssi
    /\ \A i \in 1..Len(list) : \E k \in 1..Len(report) :
           list[i].ssid = report[k].ssid /\ list[i].rssi = report[k].rssi

StartAPModeIdempotent ==
    lastCall.name = "startAPMode" =>
        \A e \in ApEnvs(BOOLEAN) :
            (lastCall.ret \/ ~e.apOk) =>
                LET again == startAPMode(View, e)
                IN  /\ again.state = _state
                    /\ again.apEnabled = _apEnabled
                    /\ again.mode = wifiMode

\* startAPMode has returned true, having been called with a station link
\* up, which it has dropped
AccessPointStartedOverLink ==
    /\ lastCall.name = "startAPMode"
    /\ lastCall.ret
    /\ _state = WIFI_STATE_AP_MODE
    /\ _currentSSID # NoSSID
    /\ wifiMode = WIFI_AP

(* C18: startAPMode called in the state CONNECTED, the link being up,      *)
(* keeps the link and leaves the state AP_STA_MODE.                        *)
AccessPointKeepsLink ==
    [][(/\ lastCall'.name = "startAPMode"
        /\ lastCall'.ret
        /\ _state = WIFI_STATE_CONNECTED
        /\ wlStatus = WL_CONNECTED) =>
          (wlStatus' = WL_CONNECTED /\ _state' = WIFI_STATE_AP_STA_MODE)]_vars

\* an operation that gave a network to WiFi.begin and returned true has set
\* the state to CONNECTING on its way and leaves it CONNECTED, or
\* AP_STA_MODE if the access point is enabled
ConnectEndsLinked ==
    [][(lastCall'.begun # NoSSID /\ lastCall'.ret) =>
          /\ lastCall'.connecting
          /\ _state' = IF _apEnabled THEN WIFI_STATE_AP_STA_MODE
                        ELSE WIFI_STATE_CONNECTED]_vars

\* update leaves the state CONNECTED or AP_STA_MODE as it is while the link
\* is up
LinkedStateKept ==
    [][(/\ lastCall'.name = "update"
        /\ _state \in LinkedStates
        /\ wlStatus = WL_CONNECTED
        /\ wlStatus' = WL_CONNECTED) => _state' = _state]_vars

(* C19: a connect attempt that gets the link within the timeout goes       *)
(* through CONNECTING and ends in CONNECTED, or in AP_STA_MODE if the      *)
(* access point is enabled, and the following update calls keep that state *)
(* while the link is up.                                                   *)
ConnectionHolds == ConnectEndsLinked /\ LinkedStateKept

(* C20: after disconnect the state is DISCONNECTED and the active network  *)
(* name is empty.                                                          *)
DisconnectEndsOffline ==
    lastCall.name = "disconnect" =>
        (_state = WIFI_STATE_DISCONNECTED /\ _currentSSID = NoSSID)

-----------------------------------------------------------------------------
(* What the later claims speak of.                                         *)

\* the store the step starts from: begin starts from the stored list as
\* loadNetworks reads it
StoreBefore ==
    IF lastCall'.name = "begin" THEN loadNetworks(View).saved ELSE _savedNetworks

\* the step is an operation of the manager that leaves the store other than
\* it found it
StoreMutated == lastCall'.name # "power-on" /\ _savedNetworks' # StoreBefore

\* the step is an operation that gave a network to WiFi.begin and returned
\* false
AttemptFailed == lastCall'.begun # NoSSID /\ ~lastCall'.ret

(* C21: after every operation that changes the store (addNetwork,          *)
(* removeNetwork, a connect attempt that changes an entry, successful or   *)
(* not) the list in the flash equals the store.                            *)
PersistedAfterMutation ==
    [][StoreMutated => nvsNetworks' = _savedNetworks']_vars

(* C23: every connect attempt that fails, whoever issued it, adds exactly  *)
(* 1 to the failure counter and exactly 1 to connectionAttempts of the     *)
(* entry it went to.                                                       *)
FailureCounted ==
    [][AttemptFailed =>
          /\ _reconnectAttempts' = _reconnectAttempts + 1
          /\ Len(_savedNetworks') = Len(StoreBefore)
          /\ \A i \in 1..Len(StoreBefore) :
                StoreBefore[i].ssid = lastCall'.begun =>
                    _savedNetworks'[i].connectionAttempts =
                        StoreBefore[i].connectionAttempts + 1]_vars

(* C25: a connect attempt that fails, started in AP_MODE or AP_STA_MODE    *)
(* with the access point enabled, ends in AP_MODE with the access point    *)
(* running, on the timeout path and on the path after the loop.            *)
FailedAttemptKeepsAccessPoint ==
    [][(/\ AttemptFailed
        /\ _apEnabled
        /\ _state \in {WIFI_STATE_AP_MODE, WIFI_STATE_AP_STA_MODE}) =>
          (_state' = WIFI_STATE_AP_MODE /\ softAP')]_vars

(* C28: after every update, isConnected() is true only if the station link *)
(* of the radio is up.                                                     *)
ConnectedOnlyWithLink ==
    lastCall.name = "update" => (isConnected(View) => wlStatus = WL_CONNECTED)

(* C29: once begin has run, isAPMode() is true exactly when the access     *)
(* point is running.                                                       *)
AccessPointStateMatchesRadio == _initialized => (isAPMode(View) <=> softAP)

\* the step is the first update after the radio has lost the link
UpdateAfterLinkLoss ==
    /\ lastCall.name = "radio"
    /\ wlStatus = WL_DISCONNECTED
    /\ lastCall'.name = "update"

(* C24: the first update after the radio has lost the link takes the state *)
(* from CONNECTED to DISCONNECTED if the access point is not enabled and   *)
(* to AP_MODE if it is, and leaves AP_STA_MODE as it is.                   *)
LinkLossHandled ==
    [][UpdateAfterLinkLoss =>
          /\ (_state = WIFI_STATE_CONNECTED /\ ~_apEnabled) =>
                 _state' = WIFI_STATE_DISCONNECTED
          /\ (_state = WIFI_STATE_CONNECTED /\ _apEnabled) =>
                 _state' = WIFI_STATE_AP_MODE
          /\ _state = WIFI_STATE_AP_STA_MODE =>
                 _state' = WIFI_STATE_AP_STA_MODE]_vars

\* the loop runs, the store holds a network to connect to automatically and
\* the failure counter is below the maximum
ReconnectDue ==
    /\ ~SetupPhase
    /\ \E n \in Entries(_savedNetworks) : n.autoConnect
    /\ _reconnectAttempts < MAX_RECONNECT_ATTEMPTS

\* update has issued a connect attempt
UpdateAttempted == lastCall.name = "update" /\ lastCall.connecting

(* C26: in the state AP_MODE, the access point running, with a known       *)
(* auto-connect network in the air from now on and the failure counter     *)
(* below the maximum, the update calls of the loop eventually issue a      *)
(* connect attempt.                                                        *)
ReconnectsFromAccessPoint ==
    (ReconnectDue /\ _state = WIFI_STATE_AP_MODE /\ softAP) ~> UpdateAttempted

(* C27: in the state DISCONNECTED, with a known auto-connect network in    *)
(* the air and the failure counter below the maximum, the update calls of  *)
(* the loop eventually issue a connect attempt, the access point enabled   *)
(* or not.                                                                 *)
ReconnectsFromOffline ==
    (ReconnectDue /\ _state = WIFI_STATE_DISCONNECTED) ~> UpdateAttempted

\* the part of it with the access point enabled
ReconnectsFromOfflineEnabled ==
    (ReconnectDue /\ _state = WIFI_STATE_DISCONNECTED /\ _apEnabled) ~> UpdateAttempted

\* update in the state AP_MODE, or in the state DISCONNECTED with the access
\* point not enabled, without a change of the radio's status, issues no
\* attempt and leaves the state
UpdateInert ==
    [][(/\ lastCall'.name = "update"
        /\ wlStatus = lastStatus
        /\ \/ _state = WIFI_STATE_AP_MODE
           \/ _state = WIFI_STATE_DISCONNECTED /\ ~_apEnabled) =>
          (~lastCall'.connecting /\ _state' = _state /\ wlStatus' = lastStatus')]_vars

\* C22: a fetchPortfolioData called while isConnected() is false sends no
\* request and passes no response, fresh or cached, to its caller: it returns
\* false, logs that WiFi is not connected and writes that error to the
\* APIResponseInfo, if it has got one; the cache and the statistics stay as
\* they are.
FetchGated ==
    [][(lastCall'.name = "fetchPortfolioData" /\ ~isConnected(View))
        => /\ ~lastCall'.ret
           /\ lastCall'.fetch.http = 0
           /\ lastCall'.fetch.response = NoResponse
           /\ lastCall'.fetch.log = "Cannot fetch data: WiFi not connected"
           /\ lastCall'.fetch.hasInfo =>
                  /\ ~lastCall'.fetch.info.success
                  /\ ~lastCall'.fetch.info.fromCache
                  /\ lastCall'.fetch.info.error = "WiFi not connected"
           /\ api' = api]_vars

\* a fetch was refused for want of a connection although the cache holds a
\* response that is still valid
FetchRefusedDespiteCache ==
    /\ lastCall.name = "fetchPortfolioData"
    /\ ~isConnected(View)
    /\ ~lastCall.ret
    /\ lastCall.fetch.log = "Cannot fetch data: WiFi not connected"
    /\ \E k \in CacheKeys :
          /\ k[2] = lastCall.fetch.exitMode
          /\ api.cacheEnabled
          /\ isCacheValid(View, k)

\* C30: when update subtracts _lastConnectionAttempt or _lastScanTime from
\* the currentTime it has read at its start, the time stamp is not later than
\* currentTime.
StampsNotAhead == lastCall.name = "update" => ~lastCall.stampAhead

\* no update that starts before the first periodic scan is due, with the
\* time stamps behind its clock, starts a scan that is not blocking
NoEarlyPeriodicScan ==
    [][(lastCall'.name = "update"
        /\ _lastScanTime <= millis /\ _lastConnectionAttempt <= millis
        /\ Sub32(millis, _lastScanTime) <= WIFI_SCAN_INTERVAL)
       => ~(lastCall'.stampAhead /\ _lastScanTime' = millis'
            /\ trace'.lastScanStart = millis')]_vars

\* no update that starts with the time stamps behind its clock and less than
\* RECONNECT_INTERVAL after the last attempt reconnects by itself
NoEarlyReconnect ==
    [][(lastCall'.name = "update"
        /\ _lastScanTime <= millis /\ _lastConnectionAttempt <= millis
        /\ Sub32(millis, _lastConnectionAttempt) <= RECONNECT_INTERVAL)
       => ~lastCall'.auto]_vars

=============================================================================
